---- MODULE Spec2Model ----
(***************************************************************************)
(* Prompt versioning and test-runner pipeline of the ICP prompt tester:    *)
(* the express server (POST/DELETE /api/prompts, clone, POST /api/test)    *)
(* on top of the sqlite-backed Database class.                             *)
(*                                                                         *)
(* A request handler is a chain of asynchronous continuations; one action  *)
(* of the model is one database statement / upstream answer / timer        *)
(* together with the synchronous continuation that follows it.             *)
(***************************************************************************)
EXTENDS Naturals, Integers, Sequences, FiniteSets, TLC

(* ------------------------------ bounds -------------------------------- *)
NumProcs    == 2   \* requests that may be in flight at once
MaxRequests == 5   \* requests that one sequential client sends
MaxOverlap  == 3   \* requests that concurrent clients send
MaxPrompts  == 3   \* prompt ids handed out by uuidv4()
MaxResults  == 2   \* test-result ids handed out by uuidv4()
MaxQuestions == 2  \* question ids handed out by uuidv4()
MaxLines    == 6   \* lines of a completion text
MaxBlocks   == 2   \* runs of 600 letters in a completion text
MaxAsked    == 2   \* questions loaded into the prompt builder
MaxEdits    == 3   \* answers changed and exclusions toggled in the builder
MaxDays    == 2     \* calendar dates on which tests run
MaxAnswers == 2     \* entries of the answers object of a prompt
MaxGenerations == 1 \* clicks on Generate Prompt
MaxSaves   == 1     \* clicks on Create Prompt
MaxRegistrations == 3 \* requests to the register handler

Procs == 1..NumProcs

(* ------------------------------ values -------------------------------- *)
NoId      == 0                 \* SQL NULL / JS null for an id
Undefined == "<undefined>"     \* a request-body field that is absent
Names     == {"A"}
NoRow     == [id |-> NoId, name |-> Undefined, base_prompt_id |-> NoId, version |-> 0,
              questions |-> <<>>]

JsonKinds == {"json", "absent"}   \* req.body.jsonData: an object, or missing

VARIABLES
  prompts,       \* prompts table: sequence of rows in insertion (rowid) order
  results,       \* test_results table: sequence of rows in insertion order
  req,           \* per request in flight: the handler's locals and its position
  last,          \* the request answered most recently, as it ended
  nextPromptId,  \* uuidv4() for prompts: next fresh id
  nextResultId,  \* uuidv4() for test results: next fresh id
  started,       \* number of requests started so far
  promptWrites,  \* number of statements that have written the prompts table
  deletedPrompts, \* rows that have been deleted from the prompts table
  tieOrder,      \* the order in which sqlite returns rows of equal sort key
  questions,     \* questions table: sequence of rows in insertion order
  qlast,         \* the questions request answered most recently
  nextQuestionId, \* uuidv4() for questions: next fresh id
  text,          \* chatGPTResponse: the completion text of a test
  analysis,      \* analysisResult: insights and confidence of that text
  builder,       \* AnswerCollector: the component's state
  env,           \* process.env of the server process
  comparison,    \* the compare route: the rows it reads and its response
  register       \* the register handler: its user store and its requests

\* the state outside the prompt and test routes
questionVars == <<questions, qlast, nextQuestionId>>
analysisVars == <<text, analysis>>
moreVars     == <<env, comparison, register>>
otherVars    == <<questionVars, analysisVars, builder, moreVars>>

vars == <<prompts, results, req, last, nextPromptId, nextResultId, started,
          promptWrites, deletedPrompts, tieOrder, otherVars>>

\* the state of the prompt and test routes
serverVars == <<prompts, results, req, last, nextPromptId, nextResultId, started,
                promptWrites, deletedPrompts, tieOrder>>

(* --------------------------- sequence helpers ------------------------- *)
Range(s) == {s[i] : i \in 1..Len(s)}

RECURSIVE Filter(_, _)
\* rows of s that are in the set keep, order preserved
Filter(s, keep) ==
  IF s = <<>> THEN <<>>
  ELSE IF Head(s) \in keep THEN <<Head(s)>> \o Filter(Tail(s), keep)
       ELSE Filter(Tail(s), keep)

\* JavaScript's a || b on the values that the bodies carry
IsFalsy(v)  == v \in {Undefined, "false", "0", ""}
OrElse(a, b) == IF IsFalsy(a) THEN b ELSE a

\* JSON.stringify of a list, and JSON.parse of such a text
Stringify(list) == <<"[">> \o list \o <<"]">>
Parse(json)     == SubSeq(json, 2, Len(json) - 1)

(* ------------------------- upstream completion API -------------------- *)
\* An error is its HTTP status (0: the error object has no status) and the
\* marker substrings that its message contains.
OK          == [kind |-> "ok",        status |-> 200, msg |-> {}]
Rate429     == [kind |-> "api",       status |-> 429, msg |-> {}]
Auth401     == [kind |-> "api",       status |-> 401, msg |-> {}]
Quota429    == [kind |-> "api",       status |-> 429, msg |-> {"insufficient_quota"}]
QuotaNoStat == [kind |-> "api",       status |-> 0,   msg |-> {"insufficient_quota"}]
Generic500  == [kind |-> "api",       status |-> 500, msg |-> {}]

UpstreamErrors == {Rate429, Auth401, Quota429, QuotaNoStat, Generic500}

\* Errors raised inside the handler itself
TypeErrorConst == [kind |-> "TypeError: Assignment to constant variable.",
                   status |-> 0, msg |-> {}]
TypeErrorUndef == [kind |-> "TypeError: Cannot read properties of undefined",
                   status |-> 0, msg |-> {}]
SqliteError    == [kind |-> "SQLITE_CONSTRAINT", status |-> 0, msg |-> {}]

\* A mock upstream: what it answers to the 1st, 2nd and 3rd attempt of a test
Scripts ==
  {<<OK, OK, OK>>}
  \cup {<<e, OK, OK>> : e \in UpstreamErrors}
  \cup {<<Rate429, Rate429, OK>>, <<Rate429, Rate429, Rate429>>}

(* ------------------------------ requests ------------------------------ *)
IdleReq ==
  [op |-> "none", pc |-> "idle", target |-> NoId, newId |-> NoId,
   name |-> Undefined, base |-> NoId, version |-> 0, readAt |-> 0, writeAt |-> 0,
   json |-> "absent", mock |-> <<>>, retryCount |-> 0, retryDelay |-> 0,
   attempts |-> <<>>, delays |-> <<>>, sent |-> <<>>, removed |-> 0,
   error |-> "", model |-> Undefined, processingTime |-> <<>>, questions |-> <<>>,
   timestamp |-> <<>>]

\* a new request takes the lowest free slot
FreeSlot(p) == req[p].pc = "idle" /\ \A q \in Procs : q < p => req[q].pc # "idle"

\* res.status(s).json(...): the response is appended to what was sent and the
\* handler ends
Respond(r, s) == [r EXCEPT !.pc = "done", !.sent = Append(@, s)]

\* the handler of slot p goes on as r; a handler that has ended frees its slot
Move(p, r) ==
  IF r.pc = "done"
  THEN req' = [req EXCEPT ![p] = IdleReq] /\ last' = r
  ELSE req' = [req EXCEPT ![p] = r] /\ last' = last

(* ------------------------------ database ------------------------------ *)
PromptIds == {prompts[i].id : i \in 1..Len(prompts)}

PromptById(id) == CHOOSE r \in Range(prompts) : r.id = id

\* variant: the PRAGMA is never run, sqlite's default applies
ForeignKeysOff == FALSE

\* PRAGMA foreign_keys = ON
ForeignKeysOn == TRUE

\* ORDER BY leaves the order of rows of equal version to the engine: sqlite
\* answers one statement on one table content always alike, by rowid or against
TieOrders == {"rowid", "reverse rowid"}

\* 'SELECT id, version FROM prompts WHERE name = ? ORDER BY version DESC LIMIT 1':
\* the row of the greatest version, NoRow when the name has none
LatestByName(n) ==
  LET same == {i \in 1..Len(prompts) : prompts[i].name = n /\ n # Undefined}
      top  == {i \in same : \A j \in same : prompts[j].version <= prompts[i].version}
  IN  IF top = {} THEN NoRow
      ELSE IF tieOrder = "rowid"
           THEN prompts[CHOOSE i \in top : \A j \in top : i <= j]
           ELSE prompts[CHOOSE i \in top : \A j \in top : i >= j]

\* variant: the version of the row read is reused
NextVersionNoIncrement(existing) == IF existing = NoRow THEN 1 ELSE existing.version

\* createPrompt: basePromptId and version from the row that SELECT returned
BasePromptId(existing) == IF existing = NoRow THEN NoId ELSE existing.id
NextVersion(existing)  == IF existing = NoRow THEN 1 ELSE existing.version + 1

\* variant: the table also declares UNIQUE(name, version)
PromptInsertUnique(row) ==
  /\ row.id \notin PromptIds
  /\ row.name # Undefined
  /\ (ForeignKeysOn /\ row.base_prompt_id # NoId) => row.base_prompt_id \in PromptIds
  /\ \A i \in 1..Len(prompts) :
       ~(prompts[i].name = row.name /\ prompts[i].version = row.version)

\* constraints of the prompts table on INSERT
PromptInsertAllowed(row) ==
  /\ row.id \notin PromptIds                                  \* id TEXT PRIMARY KEY
  /\ row.name # Undefined                                     \* name TEXT NOT NULL
  /\ (ForeignKeysOn /\ row.base_prompt_id # NoId)
        => row.base_prompt_id \in PromptIds                   \* FOREIGN KEY (base_prompt_id)

\* constraints checked by 'DELETE FROM prompts WHERE id = ?'
PromptDeleteAllowed(id) ==
  ForeignKeysOn =>
    /\ \A i \in 1..Len(prompts) : prompts[i].base_prompt_id # id
    /\ \A i \in 1..Len(results) : results[i].prompt_id # id

\* constraints of the test_results table on INSERT
ResultInsertAllowed(row) ==
  /\ \A i \in 1..Len(results) : results[i].id # row.id        \* id TEXT PRIMARY KEY
  /\ ForeignKeysOn => row.prompt_id \in PromptIds             \* FOREIGN KEY (prompt_id)

(* ------------------------------- Init --------------------------------- *)
\* the server is started without OPENAI_MODEL
InitEnv == env = [OPENAI_MODEL |-> Undefined]

\* the prompt and test-result tables after initialize(), no request in flight
InitServer ==
  /\ prompts = <<>>
  /\ results = <<>>
  /\ req = [p \in Procs |-> IdleReq]
  /\ last = IdleReq
  /\ nextPromptId = 1
  /\ nextResultId = 1
  /\ started = 0
  /\ promptWrites = 0
  /\ deletedPrompts = {}

(* ----------------------- POST /api/prompts ---------------------------- *)
\* the handler builds the prompt object and calls database.createPrompt
\* a body with the name n and the questions qs
PostPrompt(p, n, qs) ==
  /\ FreeSlot(p)
  /\ started' = started + 1
  /\ nextPromptId <= MaxPrompts
  /\ req' = [req EXCEPT ![p] = [IdleReq EXCEPT !.op = "create", !.pc = "select",
                                  !.newId = nextPromptId, !.name = n,
                                  !.questions = qs]]
  /\ nextPromptId' = nextPromptId + 1
  /\ UNCHANGED <<tieOrder, otherVars, prompts, results, last, nextResultId, promptWrites, deletedPrompts>>

\* a body whose questions are the empty list
StartCreate(p, n) == PostPrompt(p, n, <<>>)

\* createPrompt: the SELECT runs; its callback computes basePromptId/version
\* and issues the INSERT
CreateSelect(p) ==
  /\ req[p].pc = "select"
  /\ LET existing == LatestByName(req[p].name) IN
       Move(p, [req[p] EXCEPT !.pc = "insert",
                              !.base = BasePromptId(existing),
                              !.version = NextVersion(existing),
                              !.readAt = promptWrites])
  /\ UNCHANGED <<tieOrder, otherVars, prompts, results, nextPromptId, nextResultId, promptWrites, deletedPrompts, started>>

\* createPrompt: the INSERT runs; the route answers 200 with the created
\* prompt, or 500 when the statement was rejected
CreateInsert(p) ==
  /\ req[p].pc = "insert"
  /\ req[p].op \in {"create", "clone"}
  /\ LET row == [id |-> req[p].newId, name |-> req[p].name,
                 base_prompt_id |-> req[p].base, version |-> req[p].version,
                 questions |-> Stringify(req[p].questions)]
         r   == [req[p] EXCEPT !.writeAt = promptWrites]
     IN  IF PromptInsertAllowed(row)
         THEN /\ prompts' = Append(prompts, row)
              /\ promptWrites' = promptWrites + 1
              /\ Move(p, Respond(r, 200))
         ELSE /\ Move(p, Respond(r, 500))
              /\ UNCHANGED <<prompts, promptWrites>>
  /\ UNCHANGED <<tieOrder, otherVars, results, nextPromptId, nextResultId, deletedPrompts, started>>

(* -------------------- POST /api/prompts/:id/clone --------------------- *)
Copy(n) == n \o " (Copy)"

StartClone(p, id, n) ==
  /\ FreeSlot(p)
  /\ started' = started + 1
  /\ nextPromptId <= MaxPrompts
  /\ req' = [req EXCEPT ![p] = [IdleReq EXCEPT !.op = "clone", !.pc = "get",
                                  !.target = id, !.name = n,
                                  !.newId = nextPromptId]]
  /\ nextPromptId' = nextPromptId + 1
  /\ UNCHANGED <<tieOrder, otherVars, prompts, results, last, nextResultId, promptWrites, deletedPrompts>>

\* getPrompt(id) runs; 404 when there is no such prompt, otherwise the
\* clone object is built and handed to createPrompt
CloneGet(p) ==
  /\ req[p].pc = "get"
  /\ req[p].op = "clone"
  /\ IF req[p].target \notin PromptIds
     THEN Move(p, Respond(req[p], 404))
     ELSE Move(p, [req[p] EXCEPT !.pc = "select",
                                 !.name = IF req[p].name # Undefined THEN req[p].name
                                          ELSE Copy(PromptById(req[p].target).name),
                                 !.questions = Parse(PromptById(req[p].target).questions)])
  /\ UNCHANGED <<tieOrder, otherVars, prompts, results, nextPromptId, nextResultId, promptWrites, deletedPrompts, started>>

(* ---------------------- DELETE /api/prompts/:id ----------------------- *)
StartDelete(p, id) ==
  /\ FreeSlot(p)
  /\ started' = started + 1
  /\ req' = [req EXCEPT ![p] = [IdleReq EXCEPT !.op = "delete", !.pc = "delResults",
                                  !.target = id]]
  /\ UNCHANGED <<tieOrder, otherVars, prompts, results, last, nextPromptId, nextResultId, promptWrites,
                 deletedPrompts>>

\* variant: the statement filters on the wrong column (WHERE id = ?) and
\* matches no row
ResultsAfterDeleteWrongColumn(id) == results

\* 'DELETE FROM test_results WHERE prompt_id = ?': the table afterwards
ResultsAfterDelete(id) ==
  Filter(results, {r \in Range(results) : r.prompt_id # id})

\* deletePrompt: the DELETE of the test results runs, then the DELETE of the
\* prompt is issued
DeleteResults(p) ==
  /\ req[p].pc = "delResults"
  /\ results' = ResultsAfterDelete(req[p].target)
  /\ Move(p, [req[p] EXCEPT !.pc = "delPrompt",
                            !.removed = Len(results) - Len(ResultsAfterDelete(req[p].target))])
  /\ UNCHANGED <<tieOrder, otherVars, prompts, nextPromptId, nextResultId, promptWrites, deletedPrompts, started>>

\* the error sqlite raises when a row that others reference is deleted
ForeignKeyError == [kind |-> "SQLITE_CONSTRAINT", status |-> 0,
                    msg |-> {"FOREIGN KEY constraint failed"}]

DependentDataMessage ==
  "Cannot delete prompt: It has dependent data (test results or versioned prompts). Please delete the dependent data first."

\* variant: the catch block has no case for the constraint
DeleteErrorStatusGeneric(err) == 500

\* the catch block of DELETE /api/prompts/:id: status and error text
DeleteErrorStatus(err) ==
  IF "FOREIGN KEY constraint failed" \in err.msg THEN 400 ELSE 500

DeleteErrorMessage(err) ==
  IF "FOREIGN KEY constraint failed" \in err.msg THEN DependentDataMessage
  ELSE "Failed to delete prompt"

\* deletePrompt: 'DELETE FROM prompts WHERE id = ?'; the route answers 200,
\* or 400 on 'FOREIGN KEY constraint failed'
DeletePromptRow(p) ==
  /\ req[p].pc = "delPrompt"
  /\ IF PromptDeleteAllowed(req[p].target)
     THEN /\ prompts' = Filter(prompts, {r \in Range(prompts) : r.id # req[p].target})
          /\ deletedPrompts' = deletedPrompts \cup {r \in Range(prompts) : r.id = req[p].target}
          /\ promptWrites' = IF req[p].target \in PromptIds THEN promptWrites + 1
                             ELSE promptWrites
          /\ Move(p, Respond(req[p], 200))
     ELSE /\ Move(p, [Respond(req[p], DeleteErrorStatus(ForeignKeyError))
                      EXCEPT !.error = DeleteErrorMessage(ForeignKeyError)])
          /\ UNCHANGED <<prompts, promptWrites, deletedPrompts>>
  /\ UNCHANGED <<tieOrder, otherVars, results, nextPromptId, nextResultId, started>>

(* --------------------------- POST /api/test --------------------------- *)
maxRetries == 3
retryDelay == 2000

\* 'model: process.env.OPENAI_MODEL || 'gpt-4'' of the completion request
SentModel == OrElse(env.OPENAI_MODEL, "gpt-4")

\* 'model: process.env.OPENAI_MODEL || 'gpt-3.5-turbo'' of analysisResult
StoredModel == OrElse(env.OPENAI_MODEL, "gpt-3.5-turbo")

\* DATE(timestamp): a timestamp is a calendar date and a time of that date
Date(timestamp) == timestamp[1]

\* 'new Date().toISOString()': the dates that the clock may show; it does not
\* run backwards, and dates are counted from the first stored result
Today ==
  IF results = <<>> THEN {1}
  ELSE {d \in 1..MaxDays : \A i \in 1..Len(results) : Date(results[i].timestamp) <= d}

\* 'Date.now() - startTime': the timers that the handler has waited for; the
\* upstream answers at once
RECURSIVE Elapsed(_)
Elapsed(delays) == IF delays = <<>> THEN 0 ELSE Head(delays) + Elapsed(Tail(delays))

\* 'const retryDelay = 2000': the binding cannot be assigned
RetryDelayIsConst == TRUE

\* variant: every HTTP error status is retried
IsAnyHttpError(err) == err.status >= 400

\* the retry loop's test 'error.status === 429'
IsRateLimit(err) == err.status = 429

\* the handler's catch block: the status of the error response
ErrorStatus(err) ==
  IF err.status = 401 \/ "UNAUTHORIZED" \in err.msg THEN 401
  ELSE IF err.status = 429 \/ "rate limit" \in err.msg THEN 429
  ELSE IF "insufficient_quota" \in err.msg THEN 402
  ELSE IF "invalid_api_key" \in err.msg THEN 401
  ELSE 500

StartTest(p, id, j) ==
  /\ FreeSlot(p)
  /\ started' = started + 1
  /\ nextResultId <= MaxResults
  /\ req' = [req EXCEPT ![p] = [IdleReq EXCEPT !.op = "test", !.pc = "get",
                                  !.target = id, !.json = j,
                                  !.newId = nextResultId]]
  /\ nextResultId' = nextResultId + 1
  /\ UNCHANGED <<tieOrder, otherVars, prompts, results, last, nextPromptId, promptWrites, deletedPrompts>>

\* the handler once getPrompt has answered with a prompt: the message is
\* built (a TypeError when jsonData is missing) and the first completion
\* request is sent to the upstream, a mock with script m
TestPrepare(r, m) ==
  IF r.json = "absent"
  THEN Respond(r, ErrorStatus(TypeErrorUndef))
  ELSE [r EXCEPT !.pc = "call",
                 !.mock = m,
                 !.name = PromptById(r.target).name,
                 !.version = PromptById(r.target).version,
                 !.retryCount = 0,
                 !.retryDelay = retryDelay,
                 !.model = SentModel]

\* variant: 'return' is missing before res.status(404); the handler goes on,
\* reads prompt.generatedPrompt of null and the catch block answers again
TestGetNoReturn(p) ==
  /\ req[p].pc = "get"
  /\ req[p].op = "test"
  /\ IF req[p].target \notin PromptIds
     THEN Move(p, Respond(Respond(req[p], 404), ErrorStatus(TypeErrorUndef)))
     ELSE \E m \in (IF req[p].json = "absent" THEN {<<>>} ELSE Scripts) :
            Move(p, TestPrepare(req[p], m))
  /\ UNCHANGED <<tieOrder, otherVars, prompts, results, nextPromptId, nextResultId, promptWrites, deletedPrompts, started>>

\* getPrompt(promptId) runs: 404 when there is no such prompt, otherwise the
\* handler goes on to the first completion request
TestGet(p) ==
  /\ req[p].pc = "get"
  /\ req[p].op = "test"
  /\ IF req[p].target \notin PromptIds
     THEN Move(p, Respond(req[p], 404))
     ELSE \E m \in (IF req[p].json = "absent" THEN {<<>>} ELSE Scripts) :
            Move(p, TestPrepare(req[p], m))
  /\ UNCHANGED <<tieOrder, otherVars, prompts, results, nextPromptId, nextResultId, promptWrites, deletedPrompts, started>>

\* the upstream answers one attempt: success leaves the loop, takes the
\* processing time and the timestamp and issues the INSERT of the test result; a rate-limit error is counted and either a
\* timer is set or the error is thrown; any other error is thrown
TestCall(p) ==
  /\ req[p].pc = "call"
  /\ LET answer == req[p].mock[Len(req[p].attempts) + 1]
         r == [req[p] EXCEPT !.attempts = Append(@, answer)]
     IN  IF answer = OK
         THEN \E d \in Today :
                Move(p, [r EXCEPT !.pc = "insert", !.processingTime = <<Elapsed(r.delays)>>,
                                  !.timestamp = <<d, r.newId>>])
         ELSE IF IsRateLimit(answer)
         THEN IF r.retryCount + 1 < maxRetries
              THEN Move(p, [r EXCEPT !.retryCount = @ + 1, !.pc = "wait"])
              ELSE Move(p, Respond([r EXCEPT !.retryCount = @ + 1], ErrorStatus(answer)))
         ELSE Move(p, Respond(r, ErrorStatus(answer)))
  /\ UNCHANGED <<tieOrder, otherVars, prompts, results, nextPromptId, nextResultId, promptWrites, deletedPrompts, started>>

\* the timer fires after retryDelay ms, then 'retryDelay *= 2' runs
TestWait(p) ==
  /\ req[p].pc = "wait"
  /\ LET r == [req[p] EXCEPT !.delays = Append(@, req[p].retryDelay)]
     IN  IF RetryDelayIsConst
         THEN Move(p, Respond(r, ErrorStatus(TypeErrorConst)))
         ELSE Move(p, [r EXCEPT !.retryDelay = @ * 2, !.pc = "call"])
  /\ UNCHANGED <<tieOrder, otherVars, prompts, results, nextPromptId, nextResultId, promptWrites, deletedPrompts, started>>

\* the row that createTestResult inserts for the test of record r
ResultRow(r) ==
  [id |-> r.newId, prompt_id |-> r.target, prompt_name |-> r.name,
   prompt_version |-> r.version, success |-> 1,
   processing_time |-> r.processingTime, model |-> StoredModel,
   timestamp |-> r.timestamp]

\* variant: createTestResult is not awaited; the handler answers 200 whatever
\* becomes of the INSERT
TestInsertNoAwait(p) ==
  /\ req[p].pc = "insert"
  /\ req[p].op = "test"
  /\ Move(p, Respond(req[p], 200))
  /\ results' = IF ResultInsertAllowed(ResultRow(req[p]))
                THEN Append(results, ResultRow(req[p])) ELSE results
  /\ UNCHANGED <<tieOrder, otherVars, prompts, nextPromptId, nextResultId, promptWrites, deletedPrompts, started>>

\* createTestResult: the INSERT runs; the handler answers 200 with the test
\* result, or the catch block answers when the statement was rejected
TestInsert(p) ==
  /\ req[p].pc = "insert"
  /\ req[p].op = "test"
  /\ IF ResultInsertAllowed(ResultRow(req[p]))
     THEN /\ results' = Append(results, ResultRow(req[p]))
          /\ Move(p, Respond(req[p], 200))
     ELSE /\ Move(p, Respond(req[p], ErrorStatus(SqliteError)))
          /\ UNCHANGED results
  /\ UNCHANGED <<tieOrder, otherVars, prompts, nextPromptId, nextResultId, promptWrites, deletedPrompts, started>>

(* --------------------------- /api/analytics --------------------------- *)
\* variant: the CASE counts the rows whose flag is 0
IsSuccessCleared(row) == row.success = 0

\* 'CASE WHEN success = 1 THEN 1 ELSE 0 END'
IsSuccess(row) == row.success = 1

\* 'SUM(CASE ...) * 100.0 / COUNT(*)' over a group of rows, in hundredths of a
\* percent and cut off; NULL (no value) for a group without rows
SuccessRate(rows) ==
  IF rows = {} THEN <<>>
  ELSE <<(Cardinality({row \in rows : IsSuccess(row)}) * 10000) \div Cardinality(rows)>>

\* startDate / endDate that the query string does not give
NoDate == 0

\* getPromptAnalytics: the rows of the prompt within the date range, grouped
\* by DATE(timestamp)
getPromptAnalytics(promptId, startDate, endDate) ==
  LET rows == {row \in Range(results) :
                 /\ row.prompt_id = promptId
                 /\ startDate # NoDate => Date(row.timestamp) >= startDate
                 /\ endDate # NoDate => Date(row.timestamp) <= endDate}
  IN  {[date |-> d,
        total_tests |-> Cardinality({row \in rows : Date(row.timestamp) = d}),
        success_rate |-> SuccessRate({row \in rows : Date(row.timestamp) = d})] :
         d \in {Date(row.timestamp) : row \in rows}}

\* getOverallAnalytics: every prompt LEFT JOINed with its test results
getOverallAnalytics ==
  {[prompt_id |-> prompts[i].id,
    total_tests |-> Cardinality({row \in Range(results) : row.prompt_id = prompts[i].id}),
    success_rate |-> SuccessRate({row \in Range(results) : row.prompt_id = prompts[i].id})] :
     i \in 1..Len(prompts)}

(* ---------------------------- /api/questions ------------------------- *)
\* an absent list-valued field of a request body
NoList == <<Undefined>>

\* how sqlite3 stores a bound value in an INTEGER column
AsInteger(v) == IF v = "true" THEN "1" ELSE IF v = "false" THEN "0" ELSE v

\* request bodies of POST /api/questions
QuestionBodies ==
  [text : {"T", Undefined}, type : {"select", Undefined},
   required : {"true", "false"}, hardFilter : {"true", Undefined},
   options : {<<"o">>, NoList}, tags : {<<"t">>, NoList}]

\* request bodies of PUT /api/questions/:id: the keys become the SET clause
QuestionUpdates == {[hardFilter |-> "true", tags |-> <<"t">>], [x \in {} |-> ""]}

NoResponse == [op |-> "none", status |-> 0, id |-> NoId, input |-> <<>>, body |-> <<>>]

InitQuestions ==
  /\ questions = <<>>
  /\ qlast = NoResponse
  /\ nextQuestionId = 1

QuestionIds == {questions[i].id : i \in 1..Len(questions)}

\* POST /api/questions: the object handed to createQuestion; the fields it
\* does not set are undefined
QuestionOfBody(id, body) ==
  [id |-> id, text |-> body.text, type |-> OrElse(body.type, "text"),
   required |-> OrElse(body.required, "false"), options |-> body.options,
   hardFilter |-> Undefined, tags |-> NoList]

\* createQuestion: the values bound to the INSERT
QuestionRow(q) ==
  [id |-> q.id, text |-> q.text, type |-> OrElse(q.type, "text"),
   required |-> AsInteger(OrElse(q.required, "0")),
   hardFilter |-> AsInteger(OrElse(q.hardFilter, "0")),
   options |-> Stringify(IF q.options = NoList THEN <<>> ELSE q.options),
   tags |-> Stringify(IF q.tags = NoList THEN <<>> ELSE q.tags)]

\* createQuestion: the object it resolves with
QuestionCreated(q) ==
  [id |-> q.id, text |-> q.text, type |-> OrElse(q.type, "text"),
   required |-> OrElse(q.required, "0"), hardFilter |-> OrElse(q.hardFilter, "0"),
   options |-> IF q.options = NoList THEN <<>> ELSE q.options,
   tags |-> IF q.tags = NoList THEN <<>> ELSE q.tags]

\* constraints of the questions table on INSERT
QuestionInsertAllowed(row) ==
  /\ row.id \notin QuestionIds                                \* id TEXT PRIMARY KEY
  /\ row.text # Undefined                                     \* text TEXT NOT NULL

\* POST /api/questions: 200 with the created question, 500 when the INSERT
\* was rejected
PostQuestion(body) ==
  /\ nextQuestionId <= MaxQuestions
  /\ nextQuestionId' = nextQuestionId + 1
  /\ LET q == QuestionOfBody(nextQuestionId, body)
     IN  IF QuestionInsertAllowed(QuestionRow(q))
         THEN /\ questions' = Append(questions, QuestionRow(q))
              /\ qlast' = [op |-> "POST", status |-> 200, id |-> q.id,
                           input |-> body, body |-> QuestionCreated(q)]
         ELSE /\ questions' = questions
              /\ qlast' = [op |-> "POST", status |-> 500, id |-> q.id,
                           input |-> body, body |-> "Failed to create question"]
  /\ UNCHANGED <<prompts, results, req, last, nextPromptId, nextResultId, started,
                 promptWrites, deletedPrompts, tieOrder, moreVars,
                 analysisVars, builder>>

\* getAllQuestions: a row as the route returns it (required stays the stored
\* integer)
QuestionOfRow(row) ==
  [id |-> row.id, text |-> row.text, type |-> row.type, required |-> row.required,
   hardFilter |-> IF IsFalsy(row.hardFilter) THEN "false" ELSE "true",
   options |-> Parse(row.options), tags |-> Parse(row.tags)]

\* GET /api/questions: every row; the order (created_at, to the second) is
\* not kept
GetQuestions ==
  /\ qlast' = [op |-> "GET", status |-> 200, id |-> NoId, input |-> <<>>,
               body |-> {QuestionOfRow(questions[i]) : i \in 1..Len(questions)}]
  /\ UNCHANGED <<prompts, results, req, last, nextPromptId, nextResultId, started,
                 promptWrites, deletedPrompts, tieOrder, moreVars,
                 questions, nextQuestionId,
                 analysisVars, builder>>

\* updateQuestion: the row after 'UPDATE questions SET ... WHERE id = ?'
QuestionUpdated(row, updates) ==
  [row EXCEPT !.hardFilter = IF IsFalsy(updates.hardFilter) THEN "0" ELSE "1",
              !.tags = Stringify(IF updates.tags = NoList THEN <<>> ELSE updates.tags)]

\* PUT /api/questions/:id: 200 with the id and the updates, whether or not a
\* row has that id; a body without keys gives a statement sqlite rejects
PutQuestion(id, updates) ==
  /\ IF DOMAIN updates = {}
     THEN /\ questions' = questions
          /\ qlast' = [op |-> "PUT", status |-> 500, id |-> id, input |-> updates,
                       body |-> "Failed to update question"]
     ELSE /\ questions' = [i \in 1..Len(questions) |->
                             IF questions[i].id = id
                             THEN QuestionUpdated(questions[i], updates)
                             ELSE questions[i]]
          /\ qlast' = [op |-> "PUT", status |-> 200, id |-> id, input |-> updates,
                       body |-> updates]
  /\ UNCHANGED <<prompts, results, req, last, nextPromptId, nextResultId, started,
                 promptWrites, deletedPrompts, tieOrder, moreVars,
                 nextQuestionId,
                 analysisVars, builder>>

\* the questions that the snapshot of a stored prompt holds
SnapshotIds ==
  UNION {{q.id : q \in Range(Parse(prompts[i].questions))} : i \in 1..Len(prompts)}

\* variant: the snapshots refer to the questions table, as by a foreign key
QuestionDeleteRestricted(id) == id \notin SnapshotIds

\* constraints on DELETE: no table of the schema references questions(id)
QuestionDeleteAllowed(id) == TRUE

\* DELETE /api/questions/:id: 200 whether or not a row has that id
DeleteQuestion(id) ==
  /\ IF QuestionDeleteAllowed(id)
     THEN /\ questions' = Filter(questions, {r \in Range(questions) : r.id # id})
          /\ qlast' = [op |-> "DELETE", status |-> 200, id |-> id, input |-> <<>>,
                       body |-> "success"]
     ELSE /\ questions' = questions
          /\ qlast' = [op |-> "DELETE", status |-> 500, id |-> id, input |-> <<>>,
                       body |-> "Failed to delete question"]
  /\ UNCHANGED <<prompts, results, req, last, nextPromptId, nextResultId, started,
                 promptWrites, deletedPrompts, tieOrder, moreVars,
                 nextQuestionId,
                 analysisVars, builder>>

(* --------------- extractInsights, calculateConfidence ----------------- *)
\* A text is a sequence of pieces: a piece is one character, or a word, or
\* "P", a run of 600 letters that holds no keyword.
Words == [P |-> 600, insight |-> 7, Insight |-> 7, one |-> 3, two |-> 3,
          analysis |-> 8, pattern |-> 7, recommendation |-> 14, CONCLUSION |-> 10]

\* String.length
RECURSIVE Length(_)
Length(t) ==
  IF t = <<>> THEN 0
  ELSE (IF t[1] \in DOMAIN Words THEN Words[t[1]] ELSE 1) + Length(Tail(t))

\* String.toLowerCase, piece by piece
ToLowerCase(piece) ==
  IF piece = "Insight" THEN "insight"
  ELSE IF piece = "CONCLUSION" THEN "conclusion"
  ELSE IF piece = "P" THEN "p"
  ELSE piece

\* what trim() and \s take for white space
Whitespace == {" ", "\n"}

RECURSIVE TrimStart(_)
TrimStart(t) == IF t # <<>> /\ t[1] \in Whitespace THEN TrimStart(Tail(t)) ELSE t

RECURSIVE TrimEnd(_)
TrimEnd(t) ==
  IF t # <<>> /\ t[Len(t)] \in Whitespace THEN TrimEnd(SubSeq(t, 1, Len(t) - 1)) ELSE t

\* String.trim
Trim(t) == TrimEnd(TrimStart(t))

\* response.split('\n')
RECURSIVE SplitLines(_)
SplitLines(t) ==
  IF \A i \in 1..Len(t) : t[i] # "\n" THEN <<t>>
  ELSE LET i == CHOOSE k \in 1..Len(t) : t[k] = "\n" /\ \A j \in 1..(k - 1) : t[j] # "\n"
       IN  <<SubSeq(t, 1, i - 1)>> \o SplitLines(SubSeq(t, i + 1, Len(t)))

\* response.split('\n\n')
RECURSIVE SplitParagraphs(_)
SplitParagraphs(t) ==
  LET breaks == {k \in 1..(Len(t) - 1) : t[k] = "\n" /\ t[k + 1] = "\n"}
  IN  IF breaks = {} THEN <<t>>
      ELSE LET i == CHOOSE k \in breaks : \A j \in breaks : k <= j
           IN  <<SubSeq(t, 1, i - 1)>> \o SplitParagraphs(SubSeq(t, i + 2, Len(t)))

\* array.slice(0, n)
Slice(list, n) == SubSeq(list, 1, IF Len(list) < n THEN Len(list) ELSE n)

\* the number of digits that /^\d+/ matches
RECURSIVE LeadingDigits(_)
LeadingDigits(t) ==
  IF t # <<>> /\ t[1] \in {"0", "1", "2", "3", "4", "5", "6", "7", "8", "9"}
  THEN 1 + LeadingDigits(Tail(t)) ELSE 0

\* /^\d+\./.test(trimmed)
StartsNumbered(t) ==
  LeadingDigits(t) >= 1 /\ Len(t) > LeadingDigits(t) /\ t[LeadingDigits(t) + 1] = "."

\* trimmed.startsWith('-') || trimmed.startsWith('*') || /^\d+\./.test(trimmed)
IsMarkerLine(trimmed) ==
  trimmed # <<>> /\ (trimmed[1] = "-" \/ trimmed[1] = "*" \/ StartsNumbered(trimmed))

\* variant: the pattern has no \s*, the blanks after the marker stay
StripMarkerKeepSpace(trimmed) ==
  IF trimmed # <<>> /\ trimmed[1] \in {"-", "*"} THEN Tail(trimmed)
  ELSE IF StartsNumbered(trimmed)
  THEN SubSeq(trimmed, LeadingDigits(trimmed) + 2, Len(trimmed))
  ELSE trimmed

\* trimmed.replace(/^[-*]\s*|^\d+\.\s*/, '')
StripMarker(trimmed) ==
  IF trimmed # <<>> /\ trimmed[1] \in {"-", "*"} THEN TrimStart(Tail(trimmed))
  ELSE IF StartsNumbered(trimmed)
  THEN TrimStart(SubSeq(trimmed, LeadingDigits(trimmed) + 2, Len(trimmed)))
  ELSE trimmed

\* variant: the list of insights is returned whole
SliceInsightsWhole(list) == list

\* insights.slice(0, 5)
SliceInsights(list) == Slice(list, 5)

\* variant: every paragraph that is not blank is kept
IsLongParagraphNonBlank(par) == Length(Trim(par)) > 0

\* the paragraph filter 'p.trim().length > 50'
IsLongParagraph(par) == Length(Trim(par)) > 50

extractInsights(response) ==
  LET lines    == SelectSeq(SplitLines(response), LAMBDA line : Trim(line) # <<>>)
      marked   == SelectSeq(lines, LAMBDA line : IsMarkerLine(Trim(line)))
      insights == [i \in 1..Len(marked) |-> StripMarker(Trim(marked[i]))]
  IN  IF Len(insights) = 0
      THEN Slice(SelectSeq(SplitParagraphs(response), IsLongParagraph), 5)
      ELSE SliceInsights(insights)

\* response.includes(piece) for a one-character piece
Includes(t, piece) == \E i \in 1..Len(t) : t[i] = piece

analyticalKeywords == {"analysis", "insight", "pattern", "recommendation", "conclusion"}

\* analyticalKeywords.filter(keyword => response.toLowerCase().includes(keyword))
FoundKeywords(t) ==
  {k \in analyticalKeywords : \E i \in 1..Len(t) : ToLowerCase(t[i]) = k}

\* variant: the sum is returned as it is
CapConfidenceOff(c) == c

\* Math.min(confidence, 0.95), in hundredths
CapConfidence(c) == IF c < 95 THEN c ELSE 95

\* The confidence in hundredths. The code adds IEEE doubles: the sums below
\* the cap may differ from the decimal sum in the last bit; 0.5, 0.6, 0.65 and
\* the cap are exact.
calculateConfidence(response) ==
  CapConfidence(
    50
    + (IF Length(response) > 500 THEN 10 ELSE 0)
    + (IF Length(response) > 1000 THEN 10 ELSE 0)
    + (IF \/ Includes(response, "\n") \/ Includes(response, "-")
          \/ \E i \in 1..(Len(response) - 1) : response[i] = "1" /\ response[i + 1] = "."
       THEN 10 ELSE 0)
    + 5 * Cardinality(FoundKeywords(response)))

NoAnalysis == [insights |-> <<>>, confidence |-> 0]

InitAnalysis ==
  /\ text = <<>>
  /\ analysis = NoAnalysis

\* lines joined by '\n'
RECURSIVE Join(_)
Join(lines) ==
  IF lines = <<>> THEN <<>>
  ELSE IF Len(lines) = 1 THEN lines[1]
  ELSE lines[1] \o <<"\n">> \o Join(Tail(lines))

\* the lines that completions are made of: bullets, a numbered item, a plain
\* paragraph, an empty line
CompletionLines ==
  {<<"-", " ", "a">>, <<" ", "*", "b">>, <<"1", "2", ".", " ", "c">>, <<"P">>, <<>>}

\* the pieces that decide the confidence, in the order they are put together
ConfidencePieces ==
  <<"\n", "-", "1", ".", "analysis", "Insight", "pattern", "recommendation", "CONCLUSION">>

\* the pieces a text picks: "1" and "." only together
ConfidencePicks == {S \in SUBSET (1..Len(ConfidencePieces)) : (3 \in S) <=> (4 \in S)}

\* the completion of the example: '- insight one\n- insight two'
ExampleCompletion ==
  <<"-", " ", "insight", " ", "one", "\n", "-", " ", "insight", " ", "two">>

\* the completions that the upstream may return
Completions ==
  {Join(ls) : ls \in UNION {[1..n -> CompletionLines] : n \in 0..MaxLines}}
  \cup {[i \in 1..k |-> "P"] \o Filter(ConfidencePieces, {ConfidencePieces[i] : i \in S}) :
          k \in 0..MaxBlocks, S \in ConfidencePicks}
  \cup {ExampleCompletion}

\* POST /api/test: analysisResult is built from the completion text
Analyze ==
  /\ analysis = NoAnalysis
  /\ analysis' = [insights |-> extractInsights(text),
                  confidence |-> calculateConfidence(text)]
  /\ UNCHANGED <<prompts, results, req, last, nextPromptId, nextResultId, started,
                 promptWrites, deletedPrompts, tieOrder, moreVars,
                 questionVars, text, builder>>

(* ------------------- AnswerCollector: generatePrompt ------------------ *)
\* the questions that loadQuestions() has put in the component's state: the
\* first is a text question, the others are multiselect questions
QuestionTexts == <<"Q1", "Q2", "Q3", "Q4">>

AskedQuestions ==
  [i \in 1..MaxAsked |->
     [id |-> i, text |-> QuestionTexts[i],
      type |-> IF i = 1 THEN "text" ELSE "multiselect"]]

\* answers[question.id]: undefined, a string or a list of strings
NoAnswer          == [kind |-> "absent", value |-> <<>>]
StringAnswer(str) == [kind |-> "string", value |-> str]
ListAnswer(list)  == [kind |-> "list", value |-> list]

\* what a textarea can hold, as pieces: '' and 'x'
TypedTexts == {<<>>, <<"x">>}

\* question.options of a multiselect question
Options == {"a", "b"}

InitBuilder ==
  builder = [currentStep |-> 1,
             answers |-> [i \in 1..MaxAsked |-> NoAnswer],
             excludedQuestions |-> {},
             isGenerating |-> FALSE,
             pending |-> <<>>,
             generatedPrompt |-> <<>>,
             editablePrompt |-> <<>>,
             saved |-> <<>>,
             edits |-> 0,
             generations |-> 0,
             saves |-> 0]

BuilderUnchanged ==
  UNCHANGED <<prompts, results, req, last, nextPromptId, nextResultId, started,
              promptWrites, deletedPrompts, tieOrder, moreVars,
              questionVars, analysisVars>>

\* nextStep and prevStep
NextStep ==
  /\ builder.currentStep < 4
  /\ builder' = [builder EXCEPT !.currentStep = @ + 1]
  /\ BuilderUnchanged

PrevStep ==
  /\ builder.currentStep > 1
  /\ builder' = [builder EXCEPT !.currentStep = @ - 1]
  /\ BuilderUnchanged

\* step 1: toggleQuestionExclusion
ToggleQuestionExclusion(q) ==
  /\ builder.currentStep = 1
  /\ builder.edits < MaxEdits
  /\ builder' = [builder EXCEPT
                   !.excludedQuestions = IF q \in @ THEN @ \ {q} ELSE @ \cup {q},
                   !.edits = @ + 1]
  /\ BuilderUnchanged

\* step 3, a textarea of a question that is not excluded: handleAnswerChange
\* with the typed text
TypeAnswer(q, str) ==
  /\ builder.currentStep = 3
  /\ builder.edits < MaxEdits
  /\ q \notin builder.excludedQuestions
  /\ AskedQuestions[q].type = "text"
  /\ builder' = [builder EXCEPT !.answers[q] = StringAnswer(str), !.edits = @ + 1]
  /\ BuilderUnchanged

\* step 3, a checkbox of a multiselect question: the option is appended to
\* the list or filtered out of it
CheckOption(q, option) ==
  /\ builder.currentStep = 3
  /\ builder.edits < MaxEdits
  /\ q \notin builder.excludedQuestions
  /\ AskedQuestions[q].type = "multiselect"
  /\ LET current == IF builder.answers[q].kind = "list"
                    THEN builder.answers[q].value ELSE <<>>
         checked == \E i \in 1..Len(current) : current[i] = option
     IN  builder' = [builder EXCEPT
                       !.answers[q] =
                          ListAnswer(IF checked THEN Filter(current, Options \ {option})
                                     ELSE Append(current, option)),
                       !.edits = @ + 1]
  /\ BuilderUnchanged

\* answer.join(', ')
RECURSIVE JoinComma(_)
JoinComma(list) ==
  IF list = <<>> THEN <<>>
  ELSE IF Len(list) = 1 THEN <<list[1]>>
  ELSE <<list[1], ", ">> \o JoinComma(Tail(list))

\* answer && answer !== '': a list is truthy also when it is empty
IsAnswered(answer) ==
  answer.kind = "list" \/ (answer.kind = "string" /\ answer.value # <<>>)

\* the line of a question: `- ${question.text}: ${answer}`
PromptLine(question, answer) ==
  <<"- ", question.text, ": ">> \o
  (IF answer.kind = "list" THEN JoinComma(answer.value) ELSE answer.value)

\* variant: excluded questions are not skipped
IsSkippedNever(question, excluded) == FALSE

\* if (excludedQuestions.has(question.id)) return
IsSkipped(question, excluded) == question.id \in excluded

\* questions.forEach: the lines for the questions from the i-th on
RECURSIVE AnswerLines(_, _, _)
AnswerLines(i, answers, excluded) ==
  IF i > Len(AskedQuestions) THEN <<>>
  ELSE (IF ~IsSkipped(AskedQuestions[i], excluded) /\ IsAnswered(answers[i])
        THEN <<PromptLine(AskedQuestions[i], answers[i])>> ELSE <<>>)
       \o AnswerLines(i + 1, answers, excluded)

\* the text that the timer callback builds, as its lines
CompilePrompt(answers, excluded) ==
  << <<"Custom Analysis Prompt">>, <<>>, <<"Name: ", "A">>, <<>>, <<"Context:">>,
     <<"All answers define our customers ICP for webshop matching">> >>
  \o AnswerLines(1, answers, excluded)
  \o << <<>>, <<"Instructions: Analyze JSON data with focus on patterns and recommendations.">> >>

\* step 4, the Generate button: generatePrompt sets the timer; its callback
\* holds the state of this render
GeneratePrompt ==
  /\ builder.currentStep = 4
  /\ ~builder.isGenerating
  /\ builder.generations < MaxGenerations
  /\ builder' = [builder EXCEPT
                   !.isGenerating = TRUE,
                   !.generations = @ + 1,
                   !.pending = <<[answers |-> builder.answers,
                                  excluded |-> builder.excludedQuestions]>>]
  /\ BuilderUnchanged

\* 1500 ms later the callback compiles the text
GenerateTimer ==
  /\ builder.isGenerating
  /\ builder' = [builder EXCEPT
                   !.isGenerating = FALSE,
                   !.generatedPrompt = CompilePrompt(builder.pending[1].answers,
                                                     builder.pending[1].excluded),
                   !.editablePrompt = CompilePrompt(builder.pending[1].answers,
                                                    builder.pending[1].excluded)]
  /\ BuilderUnchanged

\* step 4, the Create Prompt button under a generated prompt:
\* createPromptAndSave posts the questions that are not excluded, the
\* answers and the text of the textarea, which the user leaves as it was
\* generated
CreatePromptAndSave ==
  /\ builder.currentStep = 4
  /\ builder.generatedPrompt # <<>>
  /\ builder.saves < MaxSaves
  /\ builder' = [builder EXCEPT
                   !.saves = @ + 1,
                   !.saved = <<[questions |-> {q \in 1..MaxAsked :
                                                 q \notin builder.excludedQuestions},
                                answers |-> builder.answers,
                                generatedPrompt |-> builder.editablePrompt]>>]
  /\ BuilderUnchanged

(* --------------- GET /api/prompts/:id/compare/:versionId -------------- *)
\* A JavaScript object is the sequence of its <<key, value>> entries in
\* insertion order (the keys are question ids, never array indices).
\* JSON.stringify writes the entries in that order and JSON.parse reads them
\* back in the order of the text.
StringifyObject(o) == <<"{">> \o o \o <<"}">>
ParseObject(json)  == SubSeq(json, 2, Len(json) - 1)

\* the answers objects that a body of POST /api/prompts may carry: question
\* ids with their answers
AnswerObjects ==
  {o \in UNION {[1..n -> {"q1", "q2"} \X {"x", "y"}] : n \in 0..MaxAnswers} :
     \A i, j \in 1..Len(o) : i # j => o[i][1] # o[j][1]}

\* rows of the prompts table, as createPrompt has stored them
ComparedRows(id) ==
  {[id |-> id, questions |-> Stringify(qs), answers |-> StringifyObject(o),
    generated_prompt |-> g] :
     qs \in {<<>>, <<"q1">>}, o \in AnswerObjects, g \in {"g", "h"}}

NoFlags == [questionsChanged |-> FALSE, answersChanged |-> FALSE, promptChanged |-> FALSE]

NoComparison == [stored |-> <<>>, id |-> NoId, versionId |-> NoId, status |-> 0,
                 flags |-> NoFlags]

InitComparison == comparison = NoComparison

\* getPrompt(id) on the stored rows: the row with its JSON columns parsed,
\* or null
GetPrompt(stored, id) ==
  IF \E i \in 1..Len(stored) : stored[i].id = id
  THEN LET row == stored[CHOOSE i \in 1..Len(stored) : stored[i].id = id]
       IN  <<[id |-> row.id, questions |-> Parse(row.questions),
              answers |-> ParseObject(row.answers),
              generatedPrompt |-> row.generated_prompt]>>
  ELSE <<>>

\* the route: both prompts are read; 404 when one is missing, otherwise the
\* response carries the three flags
Compare(id, versionId) ==
  /\ comparison.status = 0
  /\ LET current == GetPrompt(comparison.stored, id)
         version == GetPrompt(comparison.stored, versionId)
     IN  comparison' =
           IF current = <<>> \/ version = <<>>
           THEN [comparison EXCEPT !.id = id, !.versionId = versionId, !.status = 404]
           ELSE [comparison EXCEPT
                   !.id = id, !.versionId = versionId, !.status = 200,
                   !.flags =
                      [questionsChanged |->
                         Stringify(current[1].questions) # Stringify(version[1].questions),
                       answersChanged |->
                         StringifyObject(current[1].answers)
                           # StringifyObject(version[1].answers),
                       promptChanged |->
                         current[1].generatedPrompt # version[1].generatedPrompt]]
  /\ UNCHANGED <<serverVars, questionVars, analysisVars, builder, env, register>>

(* ------------------------- register handler --------------------------- *)
\* req.body of a registration: each field may be missing
RegisterBodies ==
  [email : {"a@x", "b@x", Undefined}, password : {"pw", Undefined},
   name : {"N", Undefined}]

NoRegistration == [pc |-> "idle", body |-> <<>>, status |-> 0, error |-> ""]

\* 'const users = []' and no request
InitRegister ==
  register = [users |-> <<>>, reqs |-> [p \in Procs |-> NoRegistration], started |-> 0]

\* bcrypt.hash(password, 10)
Hash(password) == <<"$2a$10$", password>>

\* the handler up to its await: 405 for another method than POST, 400 for a
\* missing field or an email that users.find() finds, otherwise bcrypt.hash
\* is started
Register(p, method, body) ==
  /\ register.started < MaxRegistrations
  /\ register.reqs[p].pc # "hash"
  /\ LET answer(status, error) ==
           [pc |-> "done", body |-> <<body>>, status |-> status, error |-> error]
     IN  register' =
           [register EXCEPT
              !.started = @ + 1,
              !.reqs[p] =
                 IF method # "POST" THEN answer(405, "Method not allowed")
                 ELSE IF IsFalsy(body.email) \/ IsFalsy(body.password) \/ IsFalsy(body.name)
                 THEN answer(400, "Missing required fields")
                 ELSE IF \E u \in Range(register.users) : u.email = body.email
                 THEN answer(400, "User already exists")
                 ELSE [pc |-> "hash", body |-> <<body>>, status |-> 0, error |-> ""]]
  /\ UNCHANGED <<serverVars, questionVars, analysisVars, builder, env, comparison>>

\* the hash is there: the user is pushed onto the store and 201 is answered
RegisterHashed(p) ==
  /\ register.reqs[p].pc = "hash"
  /\ LET body == register.reqs[p].body[1]
         user == [id |-> Len(register.users) + 1, email |-> body.email,
                  name |-> body.name, password |-> Hash(body.password)]
     IN  register' =
           [register EXCEPT
              !.users = Append(@, user),
              !.reqs[p] = [@ EXCEPT !.pc = "done", !.status = 201]]
  /\ UNCHANGED <<serverVars, questionVars, analysisVars, builder, env, comparison>>

(* ------------------------------- Next --------------------------------- *)
\* the state once the server listens and the component is mounted
Init ==
  /\ InitServer
  /\ tieOrder \in TieOrders
  /\ InitQuestions
  /\ InitAnalysis
  /\ InitBuilder
  /\ InitEnv
  /\ InitRegister
  /\ InitComparison

AllQuiet == \A q \in Procs : req[q].pc = "idle"

\* a request arrives and its handler starts
Start(p) ==
  \/ \E n \in Names \cup {Undefined} : StartCreate(p, n)
  \/ \E id \in 1..MaxPrompts, n \in Names \cup {Undefined} : StartClone(p, id, n)
  \/ \E id \in 1..MaxPrompts : StartDelete(p, id)
  \/ \E id \in 1..MaxPrompts, j \in JsonKinds : StartTest(p, id, j)

\* the statements, upstream answers and timers of request p
Handler(p) ==
  \/ CreateSelect(p)
  \/ CreateInsert(p)
  \/ CloneGet(p)
  \/ DeleteResults(p)
  \/ DeletePromptRow(p)
  \/ TestGet(p)
  \/ TestCall(p)
  \/ TestWait(p)
  \/ TestInsert(p)

\* requests of concurrent clients: handlers interleave at their awaits
Next ==
  \E p \in Procs :
    \/ started < MaxOverlap /\ Start(p)
    \/ Handler(p)

Spec == Init /\ [][Next]_vars

\* a single client that sends a request only after the previous response
NextSeq ==
  \E p \in Procs :
    \/ started < MaxRequests /\ AllQuiet /\ Start(p)
    \/ Handler(p)

SpecSeq == Init /\ [][NextSeq]_vars

\* the same client, and a server started with OPENAI_MODEL unset or set to
\* the name of a model
InitConfigured ==
  /\ InitServer
  /\ tieOrder \in TieOrders
  /\ InitQuestions
  /\ InitAnalysis
  /\ InitBuilder
  /\ env \in {[OPENAI_MODEL |-> m] : m \in {Undefined, "gpt-4o"}}
  /\ InitRegister
  /\ InitComparison

SpecConfigured == InitConfigured /\ [][NextSeq]_vars

\* every statement issued to sqlite runs, every upstream call returns or
\* fails, every timer fires
SpecFair == Init /\ [][Next]_vars /\ \A p \in Procs : WF_vars(Handler(p))

\* the question routes; each runs one statement
NextQuestions ==
  \/ \E body \in QuestionBodies : PostQuestion(body)
  \/ GetQuestions
  \/ \E id \in 1..MaxQuestions, updates \in QuestionUpdates : PutQuestion(id, updates)
  \/ \E id \in 1..MaxQuestions : DeleteQuestion(id)

\* the server listens; the order of ties plays no part in these routes
InitRowid ==
  /\ InitServer
  /\ tieOrder = "rowid"
  /\ InitQuestions
  /\ InitAnalysis
  /\ InitBuilder
  /\ InitEnv
  /\ InitRegister
  /\ InitComparison

SpecQuestions == InitRowid /\ [][NextQuestions]_vars

\* one client edits questions and creates prompts from them, one request
\* after the other; the bodies of POST /api/questions set the text only, and
\* a prompt is posted with the questions as the builder has loaded them
NextSnapshots ==
  \/ /\ AllQuiet
     /\ \/ \E body \in {b \in QuestionBodies :
                            /\ b.text # Undefined /\ b.type = Undefined
                            /\ b.required = "false" /\ b.hardFilter = Undefined
                            /\ b.options = NoList /\ b.tags = NoList} : PostQuestion(body)
        \/ \E id \in 1..MaxQuestions, updates \in QuestionUpdates : PutQuestion(id, updates)
        \/ \E id \in 1..MaxQuestions : DeleteQuestion(id)
        \/ \E p \in Procs, n \in Names :
             PostPrompt(p, n, [i \in 1..Len(questions) |-> QuestionOfRow(questions[i])])
  \/ \E p \in Procs : CreateSelect(p)
  \/ \E p \in Procs : CreateInsert(p)

SpecSnapshots == InitRowid /\ [][NextSnapshots]_vars

\* the analysis of one completion text
InitCompletion ==
  /\ InitServer
  /\ tieOrder = "rowid"
  /\ InitQuestions
  /\ InitBuilder
  /\ InitEnv
  /\ InitRegister
  /\ InitComparison
  /\ text \in Completions
  /\ analysis = NoAnalysis

NextAnalysis == Analyze

SpecAnalysis == InitCompletion /\ [][NextAnalysis]_vars

\* the user's actions in the prompt builder and its timer
NextBuilder ==
  \/ NextStep
  \/ PrevStep
  \/ \E q \in 1..MaxAsked : ToggleQuestionExclusion(q)
  \/ \E q \in 1..MaxAsked, str \in TypedTexts : TypeAnswer(q, str)
  \/ \E q \in 1..MaxAsked, option \in Options : CheckOption(q, option)
  \/ GeneratePrompt
  \/ GenerateTimer
  \/ CreatePromptAndSave

SpecBuilder == InitRowid /\ [][NextBuilder]_vars

\* two stored prompts and one request to the compare route
InitCompare ==
  /\ InitServer
  /\ tieOrder = "rowid"
  /\ InitQuestions
  /\ InitAnalysis
  /\ InitBuilder
  /\ InitEnv
  /\ InitRegister
  /\ \E a \in ComparedRows(1), b \in ComparedRows(2) :
       comparison = [NoComparison EXCEPT !.stored = <<a, b>>]

NextCompare == \E id \in 1..MaxPrompts, versionId \in 1..MaxPrompts : Compare(id, versionId)

SpecCompare == InitCompare /\ [][NextCompare]_vars

\* registrations of concurrent clients: handlers interleave at the await
NextRegister ==
  \E p \in Procs :
    \/ \E method \in {"POST", "GET"}, body \in RegisterBodies : Register(p, method, body)
    \/ RegisterHashed(p)

SpecRegister == InitRowid /\ [][NextRegister]_vars

(* ====================================================================== *)
(* Properties                                                             *)
(* ====================================================================== *)
\* the stored prompts named n, in insertion order
Named(n) == Filter(prompts, {r \in Range(prompts) : r.name = n})

StoredNames == {prompts[i].name : i \in 1..Len(prompts)}

NeverDeleted(n) == \A r \in deletedPrompts : r.name # n

\* the requests in flight and the one answered last
Reqs == {req[p] : p \in Procs} \cup {last}

\* C1: prompts created one after the other under one name, with no deletion
\* of a prompt of that name, carry the versions 1..N in creation order; the
\* first has no base prompt and each later one has the prompt created just
\* before it as its base prompt.
C1_SequentialVersions ==
  \A n \in StoredNames :
    NeverDeleted(n) =>
      \A i \in 1..Len(Named(n)) :
        /\ Named(n)[i].version = i
        /\ Named(n)[i].base_prompt_id = (IF i = 1 THEN NoId ELSE Named(n)[i - 1].id)

C1_Witness ==
  \E n \in StoredNames :
    /\ NeverDeleted(n)
    /\ Len(Named(n)) = 3
    /\ last.op = "create" /\ last.sent = <<200>> /\ last.name = n /\ last.version = 3

\* C2: after any sequence of non-overlapping create, clone, delete and test
\* requests, the stored prompts of each name have pairwise distinct versions
\* that are exactly 1..k, and each prompt of version v > 1 has the stored
\* prompt of version v-1 of its name as base prompt.
C2_VersionChain ==
  \A n \in StoredNames :
    /\ \A i, j \in 1..Len(Named(n)) : i # j => Named(n)[i].version # Named(n)[j].version
    /\ {Named(n)[i].version : i \in 1..Len(Named(n))} = 1..Len(Named(n))
    /\ \A i \in 1..Len(Named(n)) :
         Named(n)[i].version > 1 =>
           \E j \in 1..Len(Named(n)) :
             /\ Named(n)[j].version = Named(n)[i].version - 1
             /\ Named(n)[j].id = Named(n)[i].base_prompt_id

\* a prompt was deleted earlier, and now the delete of a prompt that a later
\* version refers to was refused: the chain of its name is still whole
C2_Witness ==
  /\ deletedPrompts # {}
  /\ \E n \in StoredNames : Len(Named(n)) >= 2
  /\ last.op = "delete" /\ last.sent = <<400>>

\* request b is about to insert a prompt of the name of a, the request
\* answered last; both SELECTs ran before either INSERT and nothing else
\* wrote the prompts table in between
Raced(a, b) ==
  /\ a.op \in {"create", "clone"} /\ b.op \in {"create", "clone"}
  /\ a.pc = "done" /\ b.pc = "insert"
  /\ a.sent # <<404>>
  /\ a.name = b.name /\ a.name # Undefined
  /\ a.readAt = b.readAt
  /\ a.writeAt = a.readAt
  /\ promptWrites = a.readAt + 1

\* C3: when two creations of one name both read the latest version before
\* either inserts, both are answered without an error and both prompts are
\* stored with the same version and the same base prompt.
C3_RaceDuplicatesVersion ==
  [][\A q \in Procs :
       (Raced(last, req[q]) /\ req'[q] # req[q]) =>
         /\ last.sent = <<200>>
         /\ last'.newId = req[q].newId /\ last'.sent = <<200>>
         /\ last'.version = last.version
         /\ last'.base = last.base
         /\ \E i, j \in 1..Len(prompts') :
              /\ prompts'[i].id = last.newId /\ prompts'[j].id = last'.newId
              /\ prompts'[i].version = prompts'[j].version
              /\ prompts'[i].name = prompts'[j].name]_vars

\* two stored prompts of one name with one version, the second of them just
\* inserted by a request that read before the first was inserted
C3_Witness ==
  /\ last.op \in {"create", "clone"} /\ last.sent = <<200>>
  /\ last.writeAt = last.readAt + 1
  /\ \E i, j \in 1..Len(prompts) :
       /\ i # j
       /\ prompts[j].id = last.newId
       /\ prompts[i].name = prompts[j].name
       /\ prompts[i].version = prompts[j].version
       /\ prompts[i].base_prompt_id = prompts[j].base_prompt_id

(* ---------------------------- test runner ------------------------------ *)
TestDone(r) == r.op = "test" /\ r.pc = "done"

\* the test result of the test of record r is in the table
Persisted(r) == \E i \in 1..Len(results) : results[i].id = r.newId

\* C4: a test whose upstream answers 429, 429 and then success is answered
\* with the successful result, which is persisted, after waiting 2000 ms
\* and then 4000 ms.
C4_RetryThenSuccess ==
  (TestDone(last) /\ last.mock = <<Rate429, Rate429, OK>>) =>
    /\ last.sent = <<200>>
    /\ Persisted(last)
    /\ last.delays = <<2000, 4000>>

\* C5: a test whose upstream answers 429 to every attempt makes exactly 3
\* attempts, is answered 429 and persists nothing.
C5_RetriesExhausted ==
  (TestDone(last) /\ last.mock = <<Rate429, Rate429, Rate429>>) =>
    /\ Len(last.attempts) = 3
    /\ last.sent = <<429>>
    /\ ~Persisted(last)

\* C6: an attempt that fails with an error other than a rate-limit error is
\* the last attempt and no delay follows it; when it is the first attempt,
\* exactly one attempt has been made when the error response is sent.
C6_NoRetryOnOtherErrors ==
  \A r \in Reqs :
    r.op = "test" =>
      \A k \in 1..Len(r.attempts) :
        (r.attempts[k] # OK /\ r.attempts[k].status # 429) =>
          /\ k = Len(r.attempts)
          /\ Len(r.delays) = k - 1
          /\ r.pc = "done"
          /\ Len(r.sent) = 1 /\ r.sent[1] # 200

C6_Witness ==
  /\ TestDone(last)
  /\ last.attempts = <<Auth401>>
  /\ last.delays = <<>>
  /\ last.sent = <<401>>

\* C7: a test makes at most 3 upstream attempts and, every upstream call
\* returning or failing, ends with exactly one response sent.
C7_TestTerminates ==
  /\ [](\A r \in Reqs :
          r.op = "test" =>
            /\ Len(r.attempts) <= 3
            /\ r.pc # "done" => r.sent = <<>>
            /\ r.pc = "done" => Len(r.sent) = 1)
  /\ \A p \in Procs : (req[p].op = "test") ~> (req[p].pc = "idle")

C7_Witness ==
  /\ TestDone(last)
  /\ Len(last.attempts) >= 1
  /\ Len(last.delays) = 1
  /\ Len(last.sent) = 1

\* C8: the status of the error response follows the class of the upstream
\* failure: auth error 401, rate limiting with retries exhausted 429, quota
\* exceeded (message contains insufficient_quota) 402 whatever the status of
\* the upstream error, any other failure 500.
C8_StatusByClass ==
  (TestDone(last) /\ last.attempts # <<>> /\ last.mock[1] # OK) =>
    /\ "insufficient_quota" \in last.mock[1].msg => last.sent = <<402>>
    /\ last.mock[1] = Auth401 => last.sent = <<401>>
    /\ last.mock = <<Rate429, Rate429, Rate429>> => last.sent = <<429>>
    /\ last.mock[1] = Generic500 => last.sent = <<500>>

\* C9: a step of a test changes the test_results table only by appending the
\* test result of that test, in the step that answers 200; a test that is
\* answered with an error has left the table as it was.
C9_AllOrNothing ==
  [][\A p \in Procs :
       (req[p].op = "test" /\ req'[p] # req[p]) =>
         IF req'[p].pc = "idle" /\ last'.sent = <<200>>
         THEN /\ Len(results') = Len(results) + 1
              /\ SubSeq(results', 1, Len(results)) = results
              /\ results'[Len(results')].id = req[p].newId
              /\ results'[Len(results')].prompt_id = req[p].target
         ELSE /\ results' = results
              /\ req'[p].pc = "idle" => (Len(last'.sent) = 1 /\ last'.sent[1] >= 400)]_vars

\* the upstream answered a test, whose prompt was deleted meanwhile: the
\* database refused the INSERT and the test was answered with an error
C9_Witness ==
  /\ TestDone(last) /\ last.sent = <<500>> /\ last.attempts = <<OK>>
  /\ ~Persisted(last)
  /\ last.target \notin PromptIds

\* C10: deletePrompt first removes exactly the test results of the prompt and
\* nothing else; its second statement, when it succeeds, removes exactly the
\* prompt, and then no stored test result refers to the deleted prompt.
C10_DeleteCascade ==
  [][\A p \in Procs :
       (req[p].op = "delete" /\ req'[p] # req[p]) =>
         /\ req[p].pc = "delResults" =>
              /\ prompts' = prompts
              /\ results' = SelectSeq(results, LAMBDA r : r.prompt_id # req[p].target)
         /\ (req[p].pc = "delPrompt" /\ last'.sent = <<200>>) =>
              /\ results' = results
              /\ \A i \in 1..Len(results') : results'[i].prompt_id # req[p].target
              /\ prompts' = SelectSeq(prompts, LAMBDA r : r.id # req[p].target)]_vars

C10_Witness ==
  /\ last.op = "delete" /\ last.sent = <<200>>
  /\ last.removed >= 1
  /\ last.target \notin PromptIds
  /\ \E r \in deletedPrompts : r.id = last.target

(* ------------------------- error taxonomy ------------------------------ *)
\* C11: a DELETE of a prompt that another stored prompt references as its
\* base is answered 400 with the remediation message, and the prompts table
\* is as before.
C11_DeleteReferencedRefused ==
  [][\A p \in Procs :
       (/\ req[p].pc = "delPrompt"
        /\ \E i \in 1..Len(prompts) : prompts[i].base_prompt_id = req[p].target
        /\ req'[p] # req[p]) =>
         /\ last'.op = "delete" /\ last'.target = req[p].target
         /\ last'.sent = <<400>>
         /\ last'.error = DependentDataMessage
         /\ prompts' = prompts
         /\ req[p].target \in PromptIds']_vars

\* a delete was refused, and the prompt it named is stored and referenced
C11_Witness ==
  /\ last.op = "delete" /\ last.sent = <<400>> /\ last.error = DependentDataMessage
  /\ last.target \in PromptIds
  /\ \E i \in 1..Len(prompts) : prompts[i].base_prompt_id = last.target

\* C12: a request that lacks a required field (a test of a stored prompt
\* without jsonData, a prompt without name) is answered 400 and stores nothing.
C12_MissingFieldIs400 ==
  (/\ last.pc = "done"
   /\ \/ last.op = "test" /\ last.json = "absent" /\ last.target \in PromptIds
      \/ last.op = "create" /\ last.name = Undefined) =>
    /\ last.sent = <<400>>
    /\ last.op = "test" => ~\E i \in 1..Len(results) : results[i].id = last.newId
    /\ last.op = "create" => last.newId \notin PromptIds

\* C13: a delete, clone or test addressed to an id that is not stored is
\* answered 404 and leaves the tables as they are.
C13_UnknownIdIs404 ==
  [][\A p \in Procs :
       (/\ req[p].op \in {"delete", "clone", "test"}
        /\ req[p].target \notin PromptIds
        /\ req'[p].pc = "idle" /\ req[p].pc # "idle") =>
         /\ last'.sent = <<404>>
         /\ prompts' = prompts /\ results' = results]_vars

(* --------------------------- text analysis ----------------------------- *)
Analyzed == analysis # NoAnalysis

\* every bonus of the confidence applies to the text
AllBonuses ==
  /\ Length(text) > 1000
  /\ \/ \E i \in 1..Len(text) : text[i] \in {"\n", "-"}
     \/ \E i \in 1..(Len(text) - 1) : text[i] = "1" /\ text[i + 1] = "."
  /\ \A k \in analyticalKeywords : \E i \in 1..Len(text) : ToLowerCase(text[i]) = k

\* C14: the confidence is within [0.5, 0.95], and it is exactly 0.95 when
\* every bonus applies (raw sum 1.05).
C14_ConfidenceRange ==
  Analyzed =>
    /\ 50 <= analysis.confidence /\ analysis.confidence <= 95
    /\ AllBonuses => analysis.confidence = 95

C14_Witness == Analyzed /\ AllBonuses /\ analysis.confidence = 95

\* the insights of the example as the scenario gives them
ExampleInsights == << <<"insight", " ", "one">>, <<"insight", " ", "two">> >>

\* C15, as stated: the example completion gives the two insights and the
\* confidence 0.6
C15_ExampleConfidence60 ==
  (Analyzed /\ text = ExampleCompletion) =>
    analysis.insights = ExampleInsights /\ analysis.confidence = 60

\* C15, amended: the example completion gives the two insights and the
\* confidence 0.65: base 0.5, structure bonus 0.1 and 0.05 for the keyword
\* 'insight' that the text holds.
C15_ExampleConfidence65 ==
  (Analyzed /\ text = ExampleCompletion) =>
    analysis.insights = ExampleInsights /\ analysis.confidence = 65

C15_Witness ==
  Analyzed /\ text = ExampleCompletion /\ Len(analysis.insights) = 2

\* the blanks at the start of a line
Blanks(line) ==
  CHOOSE k \in 0..Len(line) :
    /\ \A j \in 1..k : line[j] = " "
    /\ k < Len(line) => line[k + 1] # " "

\* the pieces of the marker of a line, after its blanks: 1 for a bullet, the
\* digits and the dot for a numbered item, 0 for a line without marker
MarkerLength(line) ==
  LET rest == SubSeq(line, Blanks(line) + 1, Len(line))
      nums == {d \in 1..(Len(rest) - 1) :
                 /\ \A j \in 1..d : rest[j] \in {"0", "1", "2", "3", "4", "5", "6", "7", "8", "9"}
                 /\ rest[d + 1] = "."}
  IN  IF rest # <<>> /\ rest[1] \in {"-", "*"} THEN 1
      ELSE IF nums # {} THEN 1 + (CHOOSE d \in nums : \A e \in nums : e <= d)
      ELSE 0

\* a marker line without its blanks, its marker and the blanks after it
Unmarked(line) ==
  LET rest == SubSeq(line, Blanks(line) + MarkerLength(line) + 1, Len(line))
  IN  SubSeq(rest, Blanks(rest) + 1, Len(rest))

\* the lines of the text, and those that carry a marker, in text order
TextLines == SplitLines(text)
MarkerLines == SelectSeq(TextLines, LAMBDA line : MarkerLength(line) > 0)

\* C16: at most 5 insights; when the text has a marker line, the insights
\* are the marker lines in text order, each without its marker, cut to the
\* first 5, and no plain paragraph is among them.
C16_MarkerLinesFirst ==
  Analyzed =>
    /\ Len(analysis.insights) <= 5
    /\ Len(MarkerLines) > 0 =>
         /\ Len(analysis.insights) = (IF Len(MarkerLines) < 5 THEN Len(MarkerLines) ELSE 5)
         /\ \A i \in 1..Len(analysis.insights) :
              /\ analysis.insights[i] = Unmarked(MarkerLines[i])
              /\ \A j \in 1..Len(analysis.insights[i]) : analysis.insights[i][j] # "P"

\* six marker lines of the three kinds, five insights
C16_Witness ==
  /\ Analyzed
  /\ Len(MarkerLines) > 5
  /\ \E i, j \in 1..Len(MarkerLines) : MarkerLines[i][1] = "-" /\ MarkerLines[j][1] = "1"
  /\ Len(analysis.insights) = 5

(* --------------------------- prompt builder ---------------------------- *)
\* the timer has fired: generatedPrompt was compiled from builder.pending
Generated == builder.generations > 0 /\ ~builder.isGenerating

\* the generated text has a line that begins `- <text of question q>: `
HasLineFor(q) ==
  \E i \in 1..Len(builder.generatedPrompt) :
    /\ Len(builder.generatedPrompt[i]) >= 3
    /\ builder.generatedPrompt[i][1] = "- "
    /\ builder.generatedPrompt[i][2] = QuestionTexts[q]

\* C17: the generated text has no line for a question that was excluded
\* when generatePrompt was called.
C17_ExcludedNeverAppear ==
  Generated => \A q \in builder.pending[1].excluded : ~HasLineFor(q)

\* an excluded question that has an answer, and the text generated
C17_Witness ==
  /\ Generated
  /\ \E q \in builder.pending[1].excluded :
       builder.pending[1].answers[q].kind = "string"
       /\ builder.pending[1].answers[q].value # <<>>

\* C18: a question that is not excluded has no line when its answer is
\* absent, '' or [], and otherwise exactly one line `- <text>: <answer>`, a
\* list joined by ', ', the lines in question order.
C18_EmptyAnswersOmitted ==
  Generated =>
    LET c == builder.pending[1]
        shown == {q \in 1..MaxAsked : q \notin c.excluded /\ c.answers[q].value # <<>>}
        lines == SelectSeq(builder.generatedPrompt,
                           LAMBDA line : Len(line) >= 3 /\ line[1] = "- ")
    IN  /\ \A q \in (1..MaxAsked) \ c.excluded :
             c.answers[q].value = <<>> => ~HasLineFor(q)
        /\ Len(lines) = Cardinality(shown)
        /\ \A i \in 1..Len(lines) : \E q \in shown :
             /\ lines[i] = <<"- ", QuestionTexts[q], ": ">> \o
                           (IF c.answers[q].kind = "list"
                            THEN JoinComma(c.answers[q].value) ELSE c.answers[q].value)
             /\ Cardinality({r \in shown : r < q}) = i - 1

(* ------------------------------ cloning -------------------------------- *)
\* C19: a clone that is answered with success is stored with version 1,
\* whatever prompts its name has already.
C19_CloneUnversioned ==
  (last.op = "clone" /\ last.pc = "done" /\ last.sent = <<200>>) =>
    /\ last.version = 1
    /\ \A i \in 1..Len(prompts) : prompts[i].id = last.newId => prompts[i].version = 1

(* ------------------------------ questions ------------------------------ *)
\* C20: the GET that follows the POST of a question with all its fields
\* returns the question with exactly the values posted.
C20_QuestionRoundTrip ==
  [][(/\ qlast.op = "POST" /\ qlast.status = 200
      /\ qlast.input.type # Undefined /\ qlast.input.hardFilter # Undefined
      /\ qlast.input.options # NoList /\ qlast.input.tags # NoList
      /\ qlast'.op = "GET") =>
       \E row \in qlast'.body :
         /\ row.id = qlast.id
         /\ row.text = qlast.input.text
         /\ row.type = qlast.input.type
         /\ row.required = qlast.input.required
         /\ row.hardFilter = qlast.input.hardFilter
         /\ row.options = qlast.input.options
         /\ row.tags = qlast.input.tags]_vars

\* C21: for every configuration of OPENAI_MODEL (a model name, or unset), the
\* model name stored in a test result equals the model name that was sent in
\* the completion request of that test.
C21_StoredModelIsSentModel ==
  \A row \in Range(results) :
    (last.op = "test" /\ last.newId = row.id) => row.model = last.model

\* C22: every test that reached its first upstream attempt has its elapsed
\* time recorded when it ends, whether it succeeded or failed.
C22_ElapsedRecordedAlways ==
  (last.op = "test" /\ last.pc = "done" /\ Len(last.attempts) >= 1)
    => last.processingTime # <<>>

\* C23: a stored test result is never changed and is removed only together
\* with its prompt: when a delete request that removed test results has
\* ended, the prompt they referenced is no longer stored.
C23_ResultGoneOnlyWithPrompt ==
  (last.op = "delete" /\ last.pc = "done" /\ last.removed > 0)
    => last.target \notin PromptIds

\* the text has a stretch of more than 50 characters that starts and ends
\* with a character that is not white space and holds no empty line
HasLongParagraph ==
  \E i, j \in 1..Len(text) :
    /\ i <= j
    /\ text[i] \notin Whitespace /\ text[j] \notin Whitespace
    /\ \A k \in i..(j - 1) : ~(text[k] = "\n" /\ text[k + 1] = "\n")
    /\ Length(SubSeq(text, i, j)) > 50

\* C24: for the empty text there are zero insights and the confidence is
\* exactly 0.5; for any text without marker line and without paragraph of
\* more than 50 characters the insight list is empty.
C24_EmptyAndShortTexts ==
  Analyzed =>
    /\ text = <<>> => (analysis.insights = <<>> /\ analysis.confidence = 50)
    /\ (Len(MarkerLines) = 0 /\ ~HasLongParagraph) => analysis.insights = <<>>

\* a text of short plain words was analysed
C24_Witness ==
  /\ Analyzed
  /\ \E i \in 1..Len(text) : text[i] \in analyticalKeywords
  /\ Len(MarkerLines) = 0
  /\ ~HasLongParagraph
  /\ analysis.insights = <<>>

\* C25: an update or a deletion of a question leaves every stored prompt as
\* it is, its questions snapshot included, and a DELETE of a question is
\* answered 200 and removes it whatever prompts contain it.
C25_QuestionsApartFromPrompts ==
  [][/\ questions' # questions => prompts' = prompts
     /\ qlast'.op = "DELETE" => (qlast'.status = 200 /\ qlast'.id \notin QuestionIds')]_vars

\* a question that the snapshot of a stored prompt holds has been deleted
C25_Witness ==
  /\ qlast.op = "DELETE"
  /\ qlast.status = 200
  /\ qlast.id \in SnapshotIds
  /\ qlast.id \notin QuestionIds

\* the answers and the text of the stored prompt with the given id
StoredPrompt(id) ==
  comparison.stored[CHOOSE i \in 1..Len(comparison.stored) : comparison.stored[i].id = id]

AnswerMapping(id) == Range(ParseObject(StoredPrompt(id).answers))

\* C26: in the result of the compare route answersChanged is true iff the
\* two answers mappings differ as mappings, whatever the order of entry, and
\* promptChanged is true iff the generated texts differ; a prompt compared
\* with itself gives all three flags false.
C26_FlagsIffDifferent ==
  comparison.status = 200 =>
    /\ comparison.flags.answersChanged
         <=> (AnswerMapping(comparison.id) # AnswerMapping(comparison.versionId))
    /\ comparison.flags.promptChanged
         <=> (StoredPrompt(comparison.id).generated_prompt
                # StoredPrompt(comparison.versionId).generated_prompt)
    /\ comparison.id = comparison.versionId => comparison.flags = NoFlags

\* C27: a DELETE of a prompt that no other prompt names as base prompt is
\* answered 200 and removes the prompt, also when a test of that prompt
\* inserts its result between the two statements of deletePrompt; and no
\* stored test result references a prompt that is not stored.
C27_UnreferencedDeleteSucceeds ==
  /\ (/\ last.op = "delete" /\ last.pc = "done"
      /\ \A r \in Range(prompts) : r.base_prompt_id # last.target)
       => (last.sent = <<200>> /\ last.target \notin PromptIds)
  /\ \A row \in Range(results) : row.prompt_id \in PromptIds

\* the date ranges of a request for the analytics of a prompt
DateRanges == ({NoDate} \cup 1..MaxDays) \X ({NoDate} \cup 1..MaxDays)

\* C28: every stored test result has its success flag set, and every group
\* of the per-date and the per-prompt analytics that has a result reports a
\* success rate of exactly 100.
C28_SuccessRate100 ==
  /\ \A row \in Range(results) : row.success = 1
  /\ \A id \in PromptIds, range \in DateRanges :
       \A group \in getPromptAnalytics(id, range[1], range[2]) :
         group.total_tests >= 1 /\ group.success_rate = <<10000>>
  /\ \A group \in getOverallAnalytics :
       group.total_tests >= 1 => group.success_rate = <<10000>>

\* a prompt has results on two dates, one of them within a date range
C28_Witness ==
  /\ \E id \in PromptIds :
       /\ Cardinality(getPromptAnalytics(id, NoDate, NoDate)) = 2
       /\ Cardinality(getPromptAnalytics(id, 2, NoDate)) = 1
  /\ last.op = "test" /\ last.sent = <<200>>

\* the lines of the saved text that begin `- <text of question q>: `
SavedLinesFor(q) ==
  {line \in Range(builder.saved[1].generatedPrompt) :
     Len(line) >= 3 /\ line[1] = "- " /\ line[2] = QuestionTexts[q]}

\* C29: a prompt saved by Create Prompt without manual edits of the text has
\* a line for a question only if that question is in the saved questions
\* snapshot, and the line carries the saved answer.
C29_SavedTextFromSavedAnswers ==
  builder.saved # <<>> =>
    \A q \in 1..MaxAsked :
      \A line \in SavedLinesFor(q) :
        /\ q \in builder.saved[1].questions
        /\ line = PromptLine(AskedQuestions[q], builder.saved[1].answers[q])

\* C30: under any interleaving of registration requests the user store never
\* holds two users with the same email.
C30_EmailsUnique ==
  \A i, j \in 1..Len(register.users) :
    i # j => register.users[i].email # register.users[j].email

====
